---- MODULE Spec2Model ----
(***************************************************************************)
(* Chat Logger extension (src/framework.js): the ChatLogger singleton, the *)
(* wrapper it installs around the host's UI.addChatLine, the capture log   *)
(* kept as child <div>s of a hidden container, the two menu actions        *)
(* (download, clear), the export through a temporary object URL, and the   *)
(* start-up readiness polling.                                             *)
(*                                                                         *)
(* JavaScript strings are TLA+ strings; where the code slices or replaces  *)
(* characters the string is handled as a sequence of one-character strings *)
(* and flattened afterwards.                                               *)
(***************************************************************************)
EXTENDS Integers, Sequences, FiniteSets, TLC

VARIABLES
  GameMenuExtension,  \* window.GameMenuExtension is defined
  UI,                 \* the host's UI global: "undefined", "noAddChatLine", "ok"
  hookDepth,          \* number of wrappers around the original UI.addChatLine
  startup,            \* position of the start-up script: "load", "polling", "done"
  pages,              \* pages registered with GameMenuExtension.addPage
  containers,         \* every log container <div> created, each its child list
  logContainer,       \* ChatLogger.logContainer: 0 = null, else index in containers
  chatlines,          \* the host's #chatlines element: its div.line children
  clk,                \* index of the current instant of the wall clock
  nextUrl,            \* number of object URLs created so far
  urls,               \* object URLs created and not revoked
  anchors,            \* download anchors attached to document.body
  timers,             \* pending cleanup timeouts (one per export)
  polls,              \* ticks of the start-up interval that found no framework
  revoked,            \* history: for each object URL, the times it was revoked
  lastExport,         \* history: the last export of the log as it now stands
  captured,           \* history: the emissions the wrapper captured since the last clear
  ev                  \* history: what the last step did, as seen from outside

vars == <<GameMenuExtension, UI, hookDepth, startup, pages, containers,
          logContainer, chatlines, clk, nextUrl, urls, anchors, timers,
          polls, revoked, lastExport, captured, ev>>

-----------------------------------------------------------------------------
(* Bounds of the model *)

MaxLog == 2         \* emissions are accepted while the log holds fewer entries
MaxClock == 2       \* number of instants the wall clock goes through
MaxExports == 2     \* object URLs created in one run
MaxPolls == 3       \* ticks of the start-up interval followed while no framework
MaxInits == 2       \* runs of init, and wrappers nested around UI.addChatLine

-----------------------------------------------------------------------------
(* JavaScript values and strings *)

Undefined == [t |-> "undefined", s |-> "", n |-> 0]
JSString(str) == [t |-> "string", s |-> str, n |-> 0]
JSNumber(i) == [t |-> "number", s |-> "", n |-> i]

IntToString(i) == IF i < 0 THEN "-" \o ToString(-i) ELSE ToString(i)

\* ToString conversion applied by setAttribute and by template literals
ToJSString(v) ==
  CASE v.t = "undefined" -> "undefined"
    [] v.t = "string" -> v.s
    [] v.t = "number" -> IntToString(v.n)

RECURSIVE FlattenFrom(_, _)
FlattenFrom(cs, i) == IF i > Len(cs) THEN "" ELSE cs[i] \o FlattenFrom(cs, i + 1)

\* the string made of the characters cs
Flatten(cs) == FlattenFrom(cs, 1)

Digits == <<"0", "1", "2", "3", "4", "5", "6", "7", "8", "9">>

RECURSIVE Pad(_, _)
\* the decimal digits of n, zero-padded on the left to width w
Pad(n, w) == IF w = 0 THEN <<>> ELSE Append(Pad(n \div 10, w - 1), Digits[(n % 10) + 1])

\* String.prototype.slice(a, b) for 0 <= a <= b
Slice(cs, a, b) == SubSeq(cs, a + 1, IF b < Len(cs) THEN b ELSE Len(cs))

\* String.prototype.replace with a string pattern: the first occurrence only
ReplaceFirst(cs, from, to) ==
  LET hits == {i \in 1..Len(cs) : cs[i] = from}
  IN IF hits = {} THEN cs
     ELSE LET first == CHOOSE i \in hits : \A j \in hits : i <= j
          IN [i \in 1..Len(cs) |-> IF i = first THEN to ELSE cs[i]]

\* String.prototype.replace with a /g pattern: every occurrence
ReplaceAll(cs, from, to) == [i \in 1..Len(cs) |-> IF cs[i] = from THEN to ELSE cs[i]]

RECURSIVE Join(_, _)
\* Array.prototype.join
Join(strs, sep) ==
  IF strs = <<>> THEN ""
  ELSE IF Len(strs) = 1 THEN strs[1]
  ELSE strs[1] \o sep \o Join(Tail(strs), sep)

-----------------------------------------------------------------------------
(* The wall clock and Date.prototype.toISOString *)

\* the instant new Date() returns at clock index i, in seconds since 1970 and
\* milliseconds: 2024-01-02T03:04:05.000Z first, then 27 s later at .999, ...
Instant(i) == [sec |-> 1704164645 + (i - 1) * 27, ms |-> ((i - 1) * 999) % 1000]

\* civil date (UTC) of a day number counted from 1970-01-01
CivilFromDays(days) ==
  LET z == days + 719468
      era == z \div 146097
      doe == z - era * 146097
      yoe == (doe - (doe \div 1460) + (doe \div 36524) - (doe \div 146096)) \div 365
      doy == doe - (365 * yoe + (yoe \div 4) - (yoe \div 100))
      mp == (5 * doy + 2) \div 153
      d == doy - ((153 * mp + 2) \div 5) + 1
      m == IF mp < 10 THEN mp + 3 ELSE mp - 9
      y == yoe + era * 400 + (IF m <= 2 THEN 1 ELSE 0)
  IN [year |-> y, month |-> m, day |-> d]

\* YYYY-MM-DDTHH:MM:SS.mmmZ, as characters
toISOString(date) ==
  LET c == CivilFromDays(date.sec \div 86400)
      sod == date.sec % 86400
  IN Pad(c.year, 4) \o <<"-">> \o Pad(c.month, 2) \o <<"-">> \o Pad(c.day, 2)
       \o <<"T">> \o Pad(sod \div 3600, 2) \o <<":">> \o Pad((sod % 3600) \div 60, 2)
       \o <<":">> \o Pad(sod % 60, 2) \o <<".">> \o Pad(date.ms, 3) \o <<"Z">>

\* new Date().toISOString().slice(0, 19).replace('T', ' ')
formatLogTimestamp(date) ==
  Flatten(ReplaceFirst(Slice(toISOString(date), 0, 19), "T", " "))

\* variant: replace(':', '-'), which rewrites the first colon only
formatFileTimestamp_firstColon(date) ==
  Flatten(ReplaceFirst(Slice(toISOString(date), 0, 19), ":", "-"))

\* new Date().toISOString().slice(0, 19).replace(/:/g, '-')
formatFileTimestamp(date) ==
  Flatten(ReplaceAll(Slice(toISOString(date), 0, 19), ":", "-"))

\* the instants of the model and their two renderings, computed once
Dates == {Instant(i) : i \in 1..MaxClock}
LogTimestamps == [d \in Dates |-> formatLogTimestamp(d)]
FileTimestamps == [d \in Dates |-> formatFileTimestamp(d)]

LogTimestamp(date) == LogTimestamps[date]
FileTimestamp(date) == FileTimestamps[date]

-----------------------------------------------------------------------------
(* Inputs of the model *)

\* sender objects the host passes: null, players with a name, an object without one
NullPlayer == [truthy |-> FALSE, hasName |-> FALSE, name |-> ""]
Player(nm) == [truthy |-> TRUE, hasName |-> TRUE, name |-> nm]
NamelessPlayer == [truthy |-> TRUE, hasName |-> FALSE, name |-> ""]

\* (player, text, chatType) triples the host emits
Emissions ==
  { <<Player("Alice"), "hi", JSNumber(0)>>,
    <<Player("Bob"), "hey", JSNumber(3)>>,
    <<NullPlayer, "", JSNumber(1)>> }

\* every combination of sender, text and category code, for the normalizer alone
Players == {NullPlayer, NamelessPlayer, Player("Alice"), Player("Bob"), Player("")}
Texts == {"", "hi"}
ChatTypes == {JSNumber(n) : n \in -1..4} \cup {Undefined}

\* what the host's own addChatLine does with a call: return a value or raise
Outcomes ==
  { [kind |-> "return", val |-> Undefined],
    [kind |-> "return", val |-> JSString("line")],
    [kind |-> "throw", val |-> JSString("host error")] }

TypeError == [kind |-> "throw", val |-> JSString("TypeError")]

\* no export of the present log yet
NoExport == [text |-> "", filename |-> ""]

\* the record of a step: the operation, its arguments, the log it found (before),
\* the calls it made in order (trace), what it returned or raised (result), the
\* alerts and console lines it issued, the files it downloaded, and whether it
\* looked up #chatlines (domRead); pre holds what the step found: the start-up
\* position, the wrappers, the object URLs, anchors and timers, the last export
NoEv ==
  [op |-> "none", args |-> <<>>, before |-> <<>>, trace |-> <<>>,
   result |-> [kind |-> "none", val |-> Undefined],
   alerts |-> <<>>, console |-> <<>>, downloads |-> <<>>, domRead |-> FALSE,
   pre |-> [startup |-> "load", hookDepth |-> 0, nextUrl |-> 0, urls |-> {},
            anchors |-> {}, timers |-> {}, lastExport |-> NoExport]]

Console(level, msg) == [level |-> level, msg |-> msg]

\* the child list of the container ChatLogger.logContainer refers to
Log == IF logContainer = 0 THEN <<>> ELSE containers[logContainer]

\* the record of a step of operation op, taken from the current state
Ev(op) ==
  [NoEv EXCEPT !.op = op, !.before = Log,
               !.pre = [startup |-> startup, hookDepth |-> hookDepth,
                        nextUrl |-> nextUrl, urls |-> urls, anchors |-> anchors,
                        timers |-> timers, lastExport |-> lastExport]]

\* an emission as the wrapper saw it
Event(date, player, text, chatType) ==
  [date |-> date, player |-> player, text |-> text, chatType |-> chatType]

-----------------------------------------------------------------------------
(* ChatLogger.logMessage *)

\* variant: case 3 has lost its label and falls into the default
typeText_fallthrough(chatType) ==
  CASE chatType.t = "number" /\ chatType.n = 1 -> "WHISPER_TO"
    [] chatType.t = "number" /\ chatType.n = 2 -> "WHISPER_FROM"
    [] OTHER -> ""

\* the switch on chatType (strict equality with 1, 2, 3)
typeText(chatType) ==
  CASE chatType.t = "number" /\ chatType.n = 1 -> "WHISPER_TO"
    [] chatType.t = "number" /\ chatType.n = 2 -> "WHISPER_FROM"
    [] chatType.t = "number" /\ chatType.n = 3 -> "TEAM"
    [] OTHER -> ""

\* player ? player.name : 'Unknown'
playerName(player) ==
  IF player.truthy
  THEN (IF player.hasName THEN JSString(player.name) ELSE Undefined)
  ELSE JSString("Unknown")

\* the <div> logMessage builds: its four data- attributes
logEntry(date, player, text, chatType) ==
  [timestamp |-> LogTimestamp(date),
   player |-> ToJSString(playerName(player)),
   type |-> typeText(chatType),
   text |-> text]

\* variant: the entry is inserted before the first child
logMessage_prepend(children, date, player, text, chatType) ==
  <<logEntry(date, player, text, chatType)>> \o children

\* this.logContainer.appendChild(logEntry)
logMessage(children, date, player, text, chatType) ==
  Append(children, logEntry(date, player, text, chatType))

-----------------------------------------------------------------------------
(* The host emitting a chat line through UI.addChatLine *)

OriginalCall(player, text, chatType) ==
  [what |-> "original", this |-> "UI", args |-> <<player, text, chatType>>,
   entry |-> <<>>]

AppendStep(entry) ==
  [what |-> "append", this |-> "ChatLogger", args |-> <<>>, entry |-> <<entry>>]

\* variant: each wrapper logs the message twice
RECURSIVE wrapperAppends_twice(_, _, _, _, _, _)
wrapperAppends_twice(n, children, date, player, text, chatType) ==
  IF n = 0 THEN children
  ELSE logMessage(logMessage(
         wrapperAppends_twice(n - 1, children, date, player, text, chatType),
         date, player, text, chatType), date, player, text, chatType)

\* the n entries appended by n nested wrappers, each running logMessage
RECURSIVE wrapperAppends(_, _, _, _, _, _)
wrapperAppends(n, children, date, player, text, chatType) ==
  IF n = 0 THEN children
  ELSE logMessage(wrapperAppends(n - 1, children, date, player, text, chatType),
                  date, player, text, chatType)

\* what the caller of UI.addChatLine gets back
wrapperResult(depth, outcome) ==
  IF outcome.kind = "throw" THEN outcome
  ELSE IF depth = 0 THEN outcome
  ELSE IF logContainer = 0 THEN TypeError
  ELSE [kind |-> "return", val |-> Undefined]

\* the order of effects of one call: the original first, then one append for
\* each entry the wrappers added to the children
wrapperTrace(children, after, player, text, chatType) ==
  <<OriginalCall(player, text, chatType)>> \o
  [i \in 1..(Len(after) - Len(children)) |-> AppendStep(after[Len(children) + i])]

addChatLine(player, text, chatType, outcome) ==
  LET logs == hookDepth > 0 /\ outcome.kind = "return" /\ logContainer # 0
      after == IF logs
               THEN wrapperAppends(hookDepth, Log, Instant(clk), player, text, chatType)
               ELSE Log
  IN /\ UI = "ok"
     /\ Len(Log) < MaxLog
     /\ containers' = IF logs THEN [containers EXCEPT ![logContainer] = after]
                      ELSE containers
     /\ captured' = IF logs
                    THEN Append(captured, Event(Instant(clk), player, text, chatType))
                    ELSE captured
     /\ ev' = [Ev("addChatLine") EXCEPT
                 !.args = <<player, text, chatType, outcome>>,
                 !.trace = wrapperTrace(Log, after, player, text, chatType),
                 !.result = wrapperResult(hookDepth, outcome)]
     /\ lastExport' = IF logs THEN NoExport ELSE lastExport
     /\ UNCHANGED <<GameMenuExtension, UI, hookDepth, startup, pages, logContainer,
                    chatlines, clk, nextUrl, urls, anchors, timers, polls, revoked>>

HostEmits ==
  \E e \in Emissions, o \in Outcomes : addChatLine(e[1], e[2], e[3], o)

\* one emission of any sender, text and category code into an empty log
HostEmitsAny ==
  \E p \in Players, t \in Texts, c \in ChatTypes, o \in Outcomes :
     /\ Len(Log) = 0
     /\ addChatLine(p, t, c, o)

-----------------------------------------------------------------------------
(* ChatLogger.hookChatSystem and ChatLogger.init *)

\* variant: the wrapper is installed without looking for UI.addChatLine
hookChatSystem_unguarded ==
  [depth |-> hookDepth + 1,
   console |-> Console("log", "Successfully hooked into chat system")]

\* the new wrapper count and the console line of hookChatSystem
hookChatSystem ==
  IF UI = "ok"
  THEN [depth |-> hookDepth + 1,
        console |-> Console("log", "Successfully hooked into chat system")]
  ELSE [depth |-> hookDepth,
        console |-> Console("error", "UI.addChatLine not found, chat logging not available")]

ChatOptionsPage ==
  [title |-> "Chat Options",
   items |-> << [id |-> "download-chat", text |-> "Download Chat", keybind |-> "D",
                 onClick |-> "downloadLog"],
                [id |-> "clear-chat", text |-> "Clear Chat", keybind |-> "C",
                 onClick |-> "clearLog"] >>]

init ==
  /\ GameMenuExtension
  /\ containers' = Append(containers, <<>>)
  /\ logContainer' = Len(containers) + 1
  /\ hookDepth' = hookChatSystem.depth
  /\ pages' = Append(pages, ChatOptionsPage)
  /\ lastExport' = NoExport
  /\ ev' = [Ev("init") EXCEPT
                        !.console = <<hookChatSystem.console,
                                      Console("log", "Chat Logger initialized")>>,
                        !.result = [kind |-> "return", val |-> JSString("true")]]

-----------------------------------------------------------------------------
(* The start-up script *)

\* the script runs at load: init at once, or an interval of 100 ms
Load ==
  /\ startup = "load"
  /\ IF GameMenuExtension
     THEN /\ init
          /\ startup' = "done"
     ELSE /\ startup' = "polling"
          /\ ev' = Ev("setInterval")
          /\ UNCHANGED <<hookDepth, pages, containers, logContainer, lastExport>>
  /\ UNCHANGED <<GameMenuExtension, UI, chatlines, clk, nextUrl, urls, anchors, timers,
                 polls, revoked, captured>>

\* variant: the tick that runs init leaves the interval armed
checkInterval_noClear ==
  /\ startup = "polling"
  /\ Len(containers) < MaxInits
  /\ IF GameMenuExtension
     THEN /\ init
          /\ startup' = "polling"
          /\ polls' = 0
     ELSE /\ polls < MaxPolls
          /\ polls' = polls + 1
          /\ ev' = Ev("checkInterval")
          /\ UNCHANGED <<startup, hookDepth, pages, containers, logContainer, lastExport>>
  /\ UNCHANGED <<GameMenuExtension, UI, chatlines, clk, nextUrl, urls, anchors, timers,
                 revoked, captured>>

\* one tick of the interval
checkInterval ==
  /\ startup = "polling"
  /\ IF GameMenuExtension
     THEN /\ init
          /\ startup' = "done"
          /\ polls' = 0
     ELSE /\ polls < MaxPolls
          /\ polls' = polls + 1
          /\ ev' = Ev("checkInterval")
          /\ UNCHANGED <<startup, hookDepth, pages, containers, logContainer, lastExport>>
  /\ UNCHANGED <<GameMenuExtension, UI, chatlines, clk, nextUrl, urls, anchors, timers,
                 revoked, captured>>

\* the menu framework finishes loading
FrameworkReady ==
  /\ ~GameMenuExtension
  /\ GameMenuExtension' = TRUE
  /\ ev' = Ev("none")
  /\ UNCHANGED <<UI, hookDepth, startup, pages, containers, logContainer,
                 chatlines, clk, nextUrl, urls, anchors, timers, polls, revoked,
                 lastExport, captured>>

-----------------------------------------------------------------------------
(* window.ChatLogger: the object is global, so any script can call it again *)

\* ChatLogger.init() called once more after start-up
Reinit ==
  /\ startup = "done"
  /\ Len(containers) < MaxInits
  /\ hookDepth < MaxInits
  /\ init
  /\ UNCHANGED <<GameMenuExtension, UI, startup, chatlines, clk, nextUrl, urls, anchors,
                 timers, polls, revoked, captured>>

\* ChatLogger.hookChatSystem() called once more after start-up
Rehook ==
  /\ startup = "done"
  /\ hookDepth < MaxInits
  /\ hookDepth' = hookChatSystem.depth
  /\ ev' = [Ev("hookChatSystem") EXCEPT
              !.console = <<hookChatSystem.console>>,
              !.result = [kind |-> "return", val |-> Undefined]]
  /\ UNCHANGED <<GameMenuExtension, UI, startup, pages, containers, logContainer,
                 chatlines, clk, nextUrl, urls, anchors, timers, polls, revoked,
                 lastExport, captured>>

-----------------------------------------------------------------------------
(* ChatLogger.clearLog, run by the 'clear-chat' menu item *)

MenuHas(handler) ==
  \E i \in 1..Len(pages) : \E j \in 1..Len(pages[i].items) :
     pages[i].items[j].onClick = handler

\* variant: only the last child is removed
clearedChildren_lastOnly(children) ==
  IF children = <<>> THEN <<>> ELSE SubSeq(children, 1, Len(children) - 1)

\* this.logContainer.innerHTML = ''
clearedChildren(children) == <<>>

clearLog ==
  /\ MenuHas("clearLog")
  /\ logContainer # 0
  /\ containers' = [containers EXCEPT ![logContainer] = clearedChildren(@)]
  /\ captured' = <<>>
  /\ lastExport' = NoExport
  /\ ev' = [Ev("clearLog") EXCEPT
                        !.console = <<Console("log", "Clearing chat log...")>>,
                        !.alerts = <<"Chat log cleared">>]
  /\ UNCHANGED <<GameMenuExtension, UI, hookDepth, startup, pages, logContainer,
                 chatlines, clk, nextUrl, urls, anchors, timers, polls, revoked>>

-----------------------------------------------------------------------------
(* The host's live chat view, read by the fallback export *)

Absent == [has |-> FALSE, content |-> ""]
Sub(str) == [has |-> TRUE, content |-> str]
Line(tag, nick, text) == [tag |-> tag, nick |-> nick, text |-> text]

NoChatLines == [present |-> FALSE, lines |-> <<>>]
ChatLines(ls) == [present |-> TRUE, lines |-> ls]

\* states of document.getElementById('chatlines') the host goes through
LiveViews ==
  { NoChatLines,
    ChatLines(<<>>),
    ChatLines(<<Line(Absent, Sub("Alice"), Sub("hi")),
                Line(Sub("TEAM"), Sub("Bob"), Sub("hey")),
                Line(Sub(""), Absent, Absent)>>) }

-----------------------------------------------------------------------------
(* ChatLogger.downloadTextFile and its deferred cleanup *)

Download(text, filename, url) == [text |-> text, filename |-> filename, url |-> url]

\* createObjectURL, the anchor appended to the body, click (the download of the
\* blob under the file name), setTimeout; log holds the console lines so far
downloadTextFile(text, filename, log) ==
  /\ nextUrl' = nextUrl + 1
  /\ urls' = urls \cup {nextUrl + 1}
  /\ anchors' = anchors \cup {nextUrl + 1}
  /\ timers' = timers \cup {nextUrl + 1}
  /\ revoked' = Append(revoked, 0)
  /\ lastExport' = IF log.domRead THEN lastExport
                   ELSE [text |-> text, filename |-> filename]
  /\ ev' = [Ev("downloadLog") EXCEPT
              !.domRead = log.domRead,
              !.console = log.console \o
                 <<Console("log", "Downloading text file: " \o filename),
                   Console("log", "Triggering download...")>>,
              !.downloads = <<Download(text, filename, nextUrl + 1)>>,
              !.result = [kind |-> "return", val |-> Undefined]]

\* variant: the cleanup removes the anchor and forgets the object URL
cleanup_keepsUrl(t) ==
  /\ t \in timers
  /\ timers' = timers \ {t}
  /\ anchors' = anchors \ {t}
  /\ ev' = [Ev("cleanup") EXCEPT !.args = <<t>>,
                        !.console = <<Console("log", "Download cleanup complete")>>]
  /\ UNCHANGED <<GameMenuExtension, UI, hookDepth, startup, pages, containers,
                 logContainer, chatlines, clk, nextUrl, urls, revoked, polls,
                 lastExport, captured>>

\* variant: the cleanup empties document.body's children, the log container among them
cleanup_clearsLog(t) ==
  /\ t \in timers
  /\ timers' = timers \ {t}
  /\ anchors' = anchors \ {t}
  /\ urls' = urls \ {t}
  /\ revoked' = [revoked EXCEPT ![t] = @ + 1]
  /\ containers' = [i \in 1..Len(containers) |-> <<>>]
  /\ ev' = [Ev("cleanup") EXCEPT !.args = <<t>>,
                        !.console = <<Console("log", "Download cleanup complete")>>]
  /\ UNCHANGED <<GameMenuExtension, UI, hookDepth, startup, pages,
                 logContainer, chatlines, clk, nextUrl, polls, lastExport, captured>>

\* the timeout of 100 ms fires: the anchor is removed, the URL revoked
cleanup(t) ==
  /\ t \in timers
  /\ timers' = timers \ {t}
  /\ anchors' = anchors \ {t}
  /\ urls' = urls \ {t}
  /\ revoked' = [revoked EXCEPT ![t] = @ + 1]
  /\ ev' = [Ev("cleanup") EXCEPT !.args = <<t>>,
                        !.console = <<Console("log", "Download cleanup complete")>>]
  /\ UNCHANGED <<GameMenuExtension, UI, hookDepth, startup, pages, containers,
                 logContainer, chatlines, clk, nextUrl, polls, lastExport, captured>>

CleanupFires == \E t \in timers : cleanup(t)

-----------------------------------------------------------------------------
(* ChatLogger.downloadLog and ChatLogger.downloadCurrentChat *)

\* variant: every entry is stamped with the time of the export
formattedMessage_stampedNow(entry) ==
  IF entry.type # ""
  THEN "[" \o LogTimestamp(Instant(clk)) \o "] [" \o entry.type \o "] " \o entry.player
           \o ": " \o entry.text
  ELSE "[" \o LogTimestamp(Instant(clk)) \o "] " \o entry.player \o ": " \o entry.text

\* variant: the category brackets are written for every entry
formattedMessage_alwaysTag(entry) ==
  "[" \o entry.timestamp \o "] [" \o entry.type \o "] " \o entry.player
      \o ": " \o entry.text

\* one line of the transcript for a log entry
formattedMessage(entry) ==
  IF entry.type # ""
  THEN "[" \o entry.timestamp \o "] [" \o entry.type \o "] " \o entry.player
           \o ": " \o entry.text
  ELSE "[" \o entry.timestamp \o "] " \o entry.player \o ": " \o entry.text

\* variant: the lines are collected last entry first
logMessages_reversed(es) == [i \in 1..Len(es) |-> formattedMessage(es[Len(es) + 1 - i])]

\* entries.forEach(...) pushing one formatted line per entry
logMessages(es) == [i \in 1..Len(es) |-> formattedMessage(es[i])]

\* variant: a sub-element that is not there is written as "null"
subText_null(sub) == IF sub.has THEN sub.content ELSE "null"

\* textContent of a sub-element, '' when querySelector finds none
subText(sub) == IF sub.has THEN sub.content ELSE ""

\* one line of the transcript for a div.line of the live view
formattedLine(div, date) ==
  LET tag == subText(div.tag)
      sender == subText(div.nick)
      message == subText(div.text)
      timestamp == LogTimestamp(date)
  IN IF tag # ""
     THEN "[" \o timestamp \o "] [" \o tag \o "] " \o sender \o ": " \o message
     ELSE "[" \o timestamp \o "] " \o sender \o ": " \o message

domMessages(lines, date) == [i \in 1..Len(lines) |-> formattedLine(lines[i], date)]

LogFileName(date) == "game-chat-log-" \o FileTimestamp(date) \o ".txt"
DomFileName(date) == "game-chat-" \o FileTimestamp(date) \o ".txt"

\* variant: a missing container is read as one that holds no lines
containerMissing_never(chatContainer) == FALSE

\* if (!chatContainer): getElementById('chatlines') found nothing
containerMissing(chatContainer) == ~chatContainer.present

\* variant: an empty transcript is downloaded like any other
noMessages_never(messages) == FALSE

\* if (messages.length === 0)
noMessages(messages) == Len(messages) = 0

\* the fallback: scrape #chatlines
downloadCurrentChat(before) ==
  LET start == Append(before, Console("log", "Downloading current chat from DOM..."))
      messages == domMessages(chatlines.lines, Instant(clk))
  IN IF containerMissing(chatlines)
     THEN /\ ev' = [Ev("downloadLog") EXCEPT !.domRead = TRUE,
                      !.console = Append(start, Console("error", "Chat container not found")),
                      !.alerts = <<"Chat container not found">>,
                      !.result = [kind |-> "return", val |-> Undefined]]
          /\ UNCHANGED <<nextUrl, urls, anchors, timers, revoked, lastExport>>
     ELSE IF noMessages(messages)
     THEN /\ ev' = [Ev("downloadLog") EXCEPT !.domRead = TRUE,
                      !.console = Append(start, Console("log", "No chat messages found")),
                      !.alerts = <<"No chat messages found">>,
                      !.result = [kind |-> "return", val |-> Undefined]]
          /\ UNCHANGED <<nextUrl, urls, anchors, timers, revoked, lastExport>>
     ELSE downloadTextFile(Join(messages, "\n"), DomFileName(Instant(clk)),
            [domRead |-> TRUE,
             console |-> Append(start, Console("log",
                           "Found " \o ToString(Len(messages)) \o " messages in DOM"))])

\* the entries downloadLog reads: this.logContainer.querySelectorAll('div')
entries == Log

\* variant: a log of one entry is taken for an empty one
usesFallback_offByOne(es) == Len(es) <= 1

\* if (entries.length === 0): the export falls back to the live view
usesFallback(es) == Len(es) = 0

\* run by the 'download-chat' menu item
downloadLog ==
  LET start == <<Console("log", "Attempting to download chat log...")>>
      messages == logMessages(entries)
  IN /\ MenuHas("downloadLog")
     /\ logContainer # 0
     /\ nextUrl < MaxExports
     /\ IF usesFallback(entries)
        THEN downloadCurrentChat(Append(start,
               Console("log", "No logged entries found, falling back to DOM extraction")))
        ELSE downloadTextFile(Join(messages, "\n"), LogFileName(Instant(clk)),
               [domRead |-> FALSE,
                console |-> Append(start, Console("log",
                              "Found " \o ToString(Len(messages)) \o " messages to download"))])
     /\ UNCHANGED <<GameMenuExtension, UI, hookDepth, startup, pages, containers,
                    logContainer, chatlines, clk, polls, captured>>

-----------------------------------------------------------------------------
(* The environment: the clock, the host's view, the host's UI global *)

Tick ==
  /\ clk < MaxClock
  /\ clk' = clk + 1
  /\ ev' = Ev("none")
  /\ UNCHANGED <<GameMenuExtension, UI, hookDepth, startup, pages, containers,
                 logContainer, chatlines, nextUrl, urls, anchors, timers, polls,
                 revoked, lastExport, captured>>

HostRenders ==
  /\ \E v \in LiveViews : v # chatlines /\ chatlines' = v
  /\ ev' = Ev("none")
  /\ UNCHANGED <<GameMenuExtension, UI, hookDepth, startup, pages, containers,
                 logContainer, clk, nextUrl, urls, anchors, timers, polls, revoked,
                 lastExport, captured>>

HostDefinesUI ==
  /\ UI # "ok"
  /\ UI' = "ok"
  /\ ev' = Ev("none")
  /\ UNCHANGED <<GameMenuExtension, hookDepth, startup, pages, containers,
                 logContainer, chatlines, clk, nextUrl, urls, anchors, timers, polls,
                 revoked, lastExport, captured>>

-----------------------------------------------------------------------------
(* The specification *)

Init ==
  /\ GameMenuExtension \in BOOLEAN
  /\ UI \in {"undefined", "noAddChatLine", "ok"}
  /\ hookDepth = 0
  /\ startup = "load"
  /\ pages = <<>>
  /\ containers = <<>>
  /\ logContainer = 0
  /\ chatlines \in LiveViews
  /\ clk = 1
  /\ nextUrl = 0
  /\ urls = {}
  /\ anchors = {}
  /\ timers = {}
  /\ polls = 0
  /\ revoked = <<>>
  /\ lastExport = NoExport
  /\ captured = <<>>
  /\ ev = NoEv

Next ==
  \/ Load
  \/ checkInterval
  \/ FrameworkReady
  \/ HostDefinesUI
  \/ HostEmits
  \/ clearLog
  \/ downloadLog
  \/ CleanupFires
  \/ HostRenders
  \/ Tick

Spec == Init /\ [][Next]_vars

\* the script runs once the page has loaded it, and setInterval keeps ticking
SpecStartup ==
  Init /\ [][Next]_vars /\ WF_vars(Load) /\ WF_vars(checkInterval)

\* start-up, emissions, clears, exports and their cleanups, at one instant and
\* over one state of the live view
NextCleanup ==
  \/ Load
  \/ checkInterval
  \/ FrameworkReady
  \/ HostEmits
  \/ clearLog
  \/ downloadLog
  \/ CleanupFires

\* setTimeout runs each pending cleanup
SpecCleanup ==
  Init /\ [][NextCleanup]_vars /\ \A t \in 1..MaxExports : WF_vars(cleanup(t))

\* the capture path alone, over every input of the normalizer
NextNormalize ==
  \/ Load
  \/ checkInterval
  \/ FrameworkReady
  \/ HostDefinesUI
  \/ HostEmitsAny
  \/ clearLog

SpecNormalize == Init /\ [][NextNormalize]_vars

\* start-up, emissions and clears, with init and hookChatSystem called again
NextReinit ==
  \/ Load
  \/ checkInterval
  \/ FrameworkReady
  \/ HostDefinesUI
  \/ HostEmits
  \/ clearLog
  \/ Reinit
  \/ Rehook

SpecReinit == Init /\ [][NextReinit]_vars

-----------------------------------------------------------------------------
(* Properties *)

Last(seq) == seq[Len(seq)]

\* the last step was a host emission through an installed wrapper
WrappedEmission == ev.op = "addChatLine" /\ hookDepth >= 1

\* C1, as stated: after the wrapper is installed every emission calls the
\* original once, first, with the same arguments bound to UI, and then appends
\* exactly one record, so the log grows by exactly one per emission.
C1_EveryEmissionAppendsOne ==
  WrappedEmission =>
    /\ Len(ev.trace) = 2
    /\ ev.trace[1] = OriginalCall(ev.args[1], ev.args[2], ev.args[3])
    /\ ev.trace[2].what = "append"
    /\ Len(Log) = Len(ev.before) + 1

\* C1, amended: after the wrapper is installed every emission calls the
\* original exactly once, first, with the same three arguments bound to UI; when
\* the original returns, exactly one record is then appended at the end of the
\* log; when the original raises, the caller sees that failure and the log is
\* left as it was.
C1_EmissionCallsOriginalThenAppends ==
  WrappedEmission =>
    /\ ev.trace[1] = OriginalCall(ev.args[1], ev.args[2], ev.args[3])
    /\ \A i \in 2..Len(ev.trace) : ev.trace[i].what # "original"
    /\ IF ev.args[4].kind = "return"
       THEN /\ Len(ev.trace) = 2
            /\ ev.trace[2] = AppendStep(Last(Log))
            /\ Len(Log) = Len(ev.before) + 1
            /\ SubSeq(Log, 1, Len(ev.before)) = ev.before
       ELSE /\ Len(ev.trace) = 1
            /\ Log = ev.before
            /\ ev.result = ev.args[4]

C1_Witness ==
  /\ WrappedEmission
  /\ ev.args[4].kind = "return"
  /\ Len(ev.before) = 1
  /\ Len(Log) = 2

\* C2: with no clear in between, reading the log after N captured events
\* returns exactly N records, the i-th being the record of the i-th event.
C2_ReadReturnsCapturedInOrder ==
  /\ Len(entries) = Len(captured)
  /\ \A i \in 1..Len(captured) :
       entries[i] = logEntry(captured[i].date, captured[i].player,
                             captured[i].text, captured[i].chatType)

C2_Witness ==
  /\ Len(captured) = 2
  /\ captured[1].player # captured[2].player
  /\ captured[1].date # captured[2].date
  /\ Len(entries) = 2

\* the transcript of a sequence of captured emissions, one line each, in order
RECURSIVE CapturedTranscript(_)
CapturedTranscript(evs) ==
  IF evs = <<>> THEN ""
  ELSE formattedMessage(logEntry(Head(evs).date, Head(evs).player,
                                 Head(evs).text, Head(evs).chatType))
         \o (IF Tail(evs) = <<>> THEN "" ELSE "\n" \o CapturedTranscript(Tail(evs)))

\* the last step was an export that found the log non-empty
LogExport == ev.op = "downloadLog" /\ ev.before # <<>>

\* C3: whatever emissions, clears and exports came before, an export over a
\* non-empty log produces a transcript with exactly one line per message captured
\* since the last clear, in capture order, none duplicated, dropped or reordered.
C3_TranscriptFollowsCaptureOrder ==
  LogExport =>
    /\ Len(ev.downloads) = 1
    /\ ev.downloads[1].text = CapturedTranscript(captured)

C3_Witness ==
  /\ LogExport
  /\ Len(captured) = 2
  /\ captured[1] # captured[2]
  /\ nextUrl = 2
  /\ Len(ev.downloads) = 1

\* C4: clearLog leaves the log container empty in the same step, whatever it
\* held, and issues the 'Chat log cleared' notice; a read then returns nothing.
C4_ClearEmptiesLog ==
  ev.op = "clearLog" =>
    /\ Log = <<>>
    /\ Len(entries) = 0
    /\ ev.alerts = <<"Chat log cleared">>

C4_Witness ==
  /\ ev.op = "clearLog"
  /\ Len(ev.before) = 2
  /\ Log = <<>>

IsPrefix(a, b) == Len(a) <= Len(b) /\ SubSeq(b, 1, Len(a)) = a

\* C5: every step other than clearLog keeps each record already in the log, in
\* content and position; an emission adds at most one record, at the end; an
\* export (either path, file or no file) and the deferred cleanup change nothing.
C5_OnlyClearRemovesRecords ==
  ev.op # "clearLog" =>
    /\ IsPrefix(ev.before, Log)
    /\ ev.op = "addChatLine" => Len(Log) <= Len(ev.before) + 1
    /\ ev.op # "addChatLine" => Log = ev.before

C5_Witness ==
  /\ ev.op = "cleanup"
  /\ Len(Log) = 2
  /\ timers # {}

\* the label the category code stands for
CategoryLabel(code) ==
  IF code = JSNumber(1) THEN "WHISPER_TO"
  ELSE IF code = JSNumber(2) THEN "WHISPER_FROM"
  ELSE IF code = JSNumber(3) THEN "TEAM"
  ELSE ""

\* the last step was an emission the wrapper captured
Capture == WrappedEmission /\ ev.args[4].kind = "return"

\* C6: the category mapping is total: code 1 gives WHISPER_TO, 2 WHISPER_FROM,
\* 3 TEAM, any other code (0, negative, above 3, absent) the empty label, and no
\* code makes the capture fail.
C6_CategoryMapping ==
  Capture =>
    /\ ev.result.kind = "return"
    /\ Len(Log) = Len(ev.before) + 1
    /\ Last(Log).type = CategoryLabel(ev.args[3])

C6_Witness ==
  /\ Capture
  /\ ev.args[3] = Undefined
  /\ Len(Log) = 1
  /\ Log[1].type = ""

\* C7: the record's sender is the sender's display name when the sender is
\* present and has one, and the literal "Unknown" in every other case.
C7_SenderResolution ==
  Capture =>
    Last(Log).player =
      (IF ev.args[1].truthy /\ ev.args[1].hasName THEN ev.args[1].name ELSE "Unknown")

\* one line of the transcript as the format is stated
TranscriptLine(e) ==
  "[" \o e.timestamp \o "]" \o (IF e.type = "" THEN "" ELSE " [" \o e.type \o "]")
      \o " " \o e.player \o ": " \o e.text

RECURSIVE Transcript(_)
Transcript(es) ==
  IF es = <<>> THEN ""
  ELSE IF Len(es) = 1 THEN TranscriptLine(es[1])
  ELSE TranscriptLine(es[1]) \o "\n" \o Transcript(Tail(es))

AliceThenBob ==
  << [timestamp |-> "2024-01-02 03:04:05", player |-> "Alice", type |-> "", text |-> "hi"],
     [timestamp |-> "2024-01-02 03:04:32", player |-> "Bob", type |-> "TEAM", text |-> "hey"] >>

\* C8: on the primary path each record renders as '[ts] [category] sender: text',
\* without the category brackets when the category is NONE, text verbatim; the
\* lines are joined by single newlines with none leading or trailing, so Alice's
\* plain 'hi' followed by Bob's team 'hey' give '[t1] Alice: hi\n[t2] [TEAM] Bob: hey'.
C8_PrimaryPathFormat ==
  LogExport =>
    /\ Len(ev.downloads) = 1
    /\ ev.downloads[1].text = Transcript(ev.before)
    /\ ev.before = AliceThenBob =>
         ev.downloads[1].text =
           "[2024-01-02 03:04:05] Alice: hi\n[2024-01-02 03:04:32] [TEAM] Bob: hey"

C8_Witness ==
  /\ LogExport
  /\ ev.before = AliceThenBob
  /\ ev.downloads[1].text =
       "[2024-01-02 03:04:05] Alice: hi\n[2024-01-02 03:04:32] [TEAM] Bob: hey"

\* C9: the caller of the wrapped function gets the result the original gave for
\* that call: the same return value, or the same failure.
C9_WrapperReturnsOriginalResult ==
  ev.op = "addChatLine" => ev.result = ev.args[4]

\* C10: an export takes the fallback path exactly when the log is empty at the
\* request: over a non-empty log the file is built from the log alone and
\* #chatlines is not looked up; over an empty log #chatlines is scraped instead.
C10_FallbackIffLogEmpty ==
  ev.op = "downloadLog" =>
    /\ ev.domRead <=> ev.before = <<>>
    /\ ev.before # <<>> =>
         ev.downloads = <<Download(Join(logMessages(ev.before), "\n"),
                                   LogFileName(Instant(clk)), nextUrl)>>
    /\ ev.before = <<>> =>
         \A i \in 1..Len(ev.downloads) :
            ev.downloads[i].text = Join(domMessages(chatlines.lines, Instant(clk)), "\n")

C10_Witness ==
  /\ ev.op = "downloadLog"
  /\ ev.domRead
  /\ hookDepth >= 1
  /\ Len(ev.downloads) = 1

-----------------------------------------------------------------------------
(* Exports that find nothing to write *)

\* the step was an export that found the log empty
FallbackExport == ev.op = "downloadLog" /\ ev.before = <<>>

\* the step created no object URL, no anchor and no cleanup timer
NoDownloadStarted ==
  /\ ev.downloads = <<>>
  /\ nextUrl = ev.pre.nextUrl
  /\ urls = ev.pre.urls
  /\ anchors = ev.pre.anchors
  /\ timers = ev.pre.timers

\* the step left the log, the wrapper and the menu page as it found them
LogAndHookKept ==
  /\ Log = ev.before
  /\ hookDepth = ev.pre.hookDepth
  /\ MenuHas("downloadLog")
  /\ MenuHas("clearLog")

\* C11: an export that finds no captured record and a live view that exists but
\* holds no chat line starts no download (no file, no object URL, no anchor, no
\* cleanup timer), shows the notice 'No chat messages found', and leaves the
\* log, the wrapper and the menu as they were, so that a clear is still
\* possible afterwards
C11_EmptyResultExport ==
  (FallbackExport /\ chatlines = ChatLines(<<>>)) =>
     /\ ev.alerts = <<"No chat messages found">>
     /\ NoDownloadStarted
     /\ LogAndHookKept
     /\ ev.result = [kind |-> "return", val |-> Undefined]
     /\ ENABLED clearLog

C11_Witness ==
  /\ FallbackExport
  /\ chatlines = ChatLines(<<>>)
  /\ ev.alerts = <<"No chat messages found">>
  /\ hookDepth = 1
  /\ UI = "ok"

\* C12: an export that finds no captured record and no live view container shows
\* the notice 'Chat container not found', writes no file and leaves the log
\* untouched; the notice is not the one of the empty result
C12_MissingContainerExport ==
  (FallbackExport /\ chatlines = NoChatLines) =>
     /\ ev.alerts = <<"Chat container not found">>
     /\ ev.alerts # <<"No chat messages found">>
     /\ NoDownloadStarted
     /\ Log = ev.before

C12_Witness ==
  /\ FallbackExport
  /\ chatlines = NoChatLines
  /\ ev.alerts = <<"Chat container not found">>

-----------------------------------------------------------------------------
(* Initialization without the host's chat function *)

\* init has run and installed no wrapper
Unhooked == startup = "done" /\ hookDepth = 0

\* C13: when UI.addChatLine is absent at initialization, init installs no
\* wrapper, only logs an error and still returns true after registering exactly
\* one menu page with the two actions export and clear; from then on no record
\* is ever captured, whatever the host emits, the clear action stays usable and
\* every export goes through the live view
C13_InitWithoutChatFunction ==
  /\ (ev.op = "init" /\ UI # "ok") =>
        /\ hookDepth = 0
        /\ ev.console =
             <<Console("error", "UI.addChatLine not found, chat logging not available"),
               Console("log", "Chat Logger initialized")>>
        /\ ev.alerts = <<>>
        /\ ev.result = [kind |-> "return", val |-> JSString("true")]
  /\ Unhooked =>
        /\ Log = <<>>
        /\ captured = <<>>
        /\ Len(pages) = 1
        /\ Len(pages[1].items) = 2
        /\ pages[1].items[1].onClick = "downloadLog"
        /\ pages[1].items[2].onClick = "clearLog"
        /\ ENABLED clearLog
        /\ (nextUrl < MaxExports => ENABLED downloadLog)
        /\ (ev.op = "downloadLog" =>
              /\ ev.domRead
              /\ (chatlines.present /\ chatlines.lines # <<>> => Len(ev.downloads) = 1))

C13_Witness ==
  /\ Unhooked
  /\ UI = "ok"
  /\ ev.op = "addChatLine"
  /\ ev.result.kind = "return"
  /\ Log = <<>>

-----------------------------------------------------------------------------
(* Object URLs, anchors and cleanup timers *)

\* every object URL made so far is either live with its anchor and a pending
\* cleanup and never revoked, or gone with its anchor and revoked once
ResourcesAccounted ==
  /\ Len(revoked) = nextUrl
  /\ timers \subseteq 1..nextUrl
  /\ urls = timers
  /\ anchors = timers
  /\ \A u \in 1..nextUrl : revoked[u] = IF u \in timers THEN 0 ELSE 1

\* an export that downloads makes a fresh URL, anchor and timer in the step
\* that clicks the anchor, and touches no other export's
ExportCreatesOwn ==
  (ev.op = "downloadLog" /\ ev.downloads # <<>>) =>
     LET u == ev.downloads[1].url
     IN /\ u = nextUrl
        /\ u = ev.pre.nextUrl + 1
        /\ urls = ev.pre.urls \cup {u}
        /\ anchors = ev.pre.anchors \cup {u}
        /\ timers = ev.pre.timers \cup {u}

\* a cleanup releases the URL and the anchor of its own export and nothing else
CleanupReleasesOwn ==
  ev.op = "cleanup" =>
     LET t == ev.args[1]
     IN /\ t \in ev.pre.timers
        /\ timers = ev.pre.timers \ {t}
        /\ urls = ev.pre.urls \ {t}
        /\ anchors = ev.pre.anchors \ {t}
        /\ nextUrl = ev.pre.nextUrl
        /\ Log = ev.before

\* C14: every export that creates an object URL and an anchor releases both,
\* exactly once and only after the download was triggered, on the log path and
\* on the live-view path; with exports overlapping, or a clear or emissions
\* before the cleanup fires, each cleanup releases its own export's URL and
\* anchor only; and every URL created is eventually released
C14_ExportResourcesReleased ==
  /\ [](ResourcesAccounted /\ ExportCreatesOwn /\ CleanupReleasesOwn)
  /\ \A t \in 1..MaxExports :
        (t \in urls) ~> (t \notin urls /\ t \notin anchors /\ t <= Len(revoked)
                         /\ revoked[t] = 1)

\* the first export's cleanup fired while the second export was pending
C14_Witness ==
  /\ ev.op = "cleanup"
  /\ ev.args = <<1>>
  /\ timers = {2}
  /\ revoked = <<1, 0>>

-----------------------------------------------------------------------------
(* File names *)

TwoDigits(n) == IF n < 10 THEN "0" \o ToString(n) ELSE ToString(n)

\* YYYY-MM-DDTHH-MM-SS of the clock's i-th instant, counted by hand from
\* 2024-01-02 03:04:05 UTC in steps of 27 s, fractions of a second dropped
ExportStamp(i) ==
  LET s == 5 + 27 * (i - 1)
  IN "2024-01-02T03-" \o TwoDigits(4 + s \div 60) \o "-" \o TwoDigits(s % 60)

\* C15: an exported file is named '<prefix>-<timestamp>.txt', the timestamp being
\* the instant of the export to the second as YYYY-MM-DDTHH-MM-SS; the export of
\* the log uses the prefix 'game-chat-log' (the live-view export 'game-chat'),
\* and the export of the log at 2024-01-02 03:04:05 is named
\* 'game-chat-log-2024-01-02T03-04-05.txt'
C15_FileName ==
  (ev.op = "downloadLog" /\ ev.downloads # <<>>) =>
     LET prefix == IF ev.domRead THEN "game-chat" ELSE "game-chat-log"
         name == ev.downloads[1].filename
     IN /\ name = prefix \o "-" \o ExportStamp(clk) \o ".txt"
        /\ Len(name) = Len(prefix) + 24
        /\ (clk = 1 /\ ~ev.domRead) => name = "game-chat-log-2024-01-02T03-04-05.txt"

\* an export of the log at the second instant, which lies 999 ms into its second
C15_Witness ==
  /\ ev.op = "downloadLog"
  /\ ~ev.domRead
  /\ clk = 2
  /\ Len(ev.downloads) = 1
  /\ ev.downloads[1].filename = "game-chat-log-2024-01-02T03-04-32.txt"

-----------------------------------------------------------------------------
(* Two exports of one log *)

\* the step exported the log, and the same log was exported before with no
\* emission captured and no clear in between
LogExportedAgain ==
  /\ ev.op = "downloadLog"
  /\ ~ev.domRead
  /\ ev.downloads # <<>>
  /\ ev.pre.lastExport # NoExport

\* C16: two exports of the same non-empty record sequence, with no emission and
\* no clear between them, write the same text whatever the two export times
\* are; only the file name may differ
C16_SameLogSameText ==
  LogExportedAgain =>
     /\ ev.before # <<>>
     /\ ev.downloads[1].text = ev.pre.lastExport.text
     /\ Len(ev.downloads[1].text) = Len(ev.pre.lastExport.text)

\* the second export of a log of two records, at a later instant than the first
C16_Witness ==
  /\ LogExportedAgain
  /\ Len(ev.before) = 2
  /\ ev.downloads[1].filename # ev.pre.lastExport.filename

-----------------------------------------------------------------------------
(* Initialization run again *)

\* the step ran init or hookChatSystem after start-up had installed the wrapper
RanAgain ==
  /\ ev.op \in {"init", "hookChatSystem"}
  /\ ev.pre.startup = "done"
  /\ ev.pre.hookDepth >= 1

\* C17: running init or hookChatSystem again after the wrapper is installed
\* discards no record already captured, and afterwards one host emission whose
\* original returns still calls the original once and adds exactly one record
C17_ReinitIsIdempotent ==
  /\ RanAgain => Log = ev.before
  /\ (WrappedEmission /\ ev.args[4].kind = "return") =>
        /\ ev.trace[1].what = "original"
        /\ \A i \in 2..Len(ev.trace) : ev.trace[i].what # "original"
        /\ Len(Log) = Len(ev.before) + 1

-----------------------------------------------------------------------------
(* The wait for the menu framework *)

\* the interval is still armed after the given number of ticks found no framework
StillPollingAfter(n) == startup = "polling" /\ ~GameMenuExtension /\ polls = n

\* C18: the wait for the menu framework is bounded: while the framework stays
\* absent the interval is cancelled after a maximum number of ticks, so that it
\* is no longer armed once that many ticks have found nothing
C18_PollingStops == ~StillPollingAfter(MaxPolls)

-----------------------------------------------------------------------------
(* The transcript of the live view *)

\* YYYY-MM-DD HH:MM:SS of the clock's i-th instant, counted by hand as ExportStamp
ExportTime(i) ==
  LET s == 5 + 27 * (i - 1)
  IN "2024-01-02 03:" \o TwoDigits(4 + s \div 60) \o ":" \o TwoDigits(s % 60)

\* the content of a sub-element, the empty string for one that is absent
ContentOrEmpty(sub) == IF sub = Absent THEN "" ELSE sub.content

\* the line expected for one chat line element at the clock's i-th instant
ViewLine(div, i) ==
  "[" \o ExportTime(i) \o "]"
      \o (IF ContentOrEmpty(div.tag) = "" THEN ""
          ELSE " [" \o ContentOrEmpty(div.tag) \o "]")
      \o " " \o ContentOrEmpty(div.nick) \o ": " \o ContentOrEmpty(div.text)

RECURSIVE ViewTranscript(_, _)
ViewTranscript(divs, i) ==
  IF divs = <<>> THEN ""
  ELSE IF Len(divs) = 1 THEN ViewLine(divs[1], i)
  ELSE ViewLine(divs[1], i) \o "\n" \o ViewTranscript(Tail(divs), i)

\* C19: on the fallback path every chat line element of the live view gives
\* exactly one line of the transcript, in the order of the view; tag, sender and
\* text are the content of the sub-element or empty when it is absent, without
\* any failure; the tag is written in brackets only when it is not empty; and
\* every line carries the time of the export
C19_FallbackTranscript ==
  (ev.op = "downloadLog" /\ ev.domRead /\ chatlines.present /\ chatlines.lines # <<>>) =>
     /\ Len(ev.downloads) = 1
     /\ ev.downloads[1].text = ViewTranscript(chatlines.lines, clk)
     /\ ev.alerts = <<>>
     /\ ev.result = [kind |-> "return", val |-> Undefined]

\* three elements (no tag; a tag; an empty tag with no sender and no text)
\* exported at the second instant
C19_Witness ==
  /\ ev.op = "downloadLog"
  /\ ev.domRead
  /\ clk = 2
  /\ Len(chatlines.lines) = 3
  /\ Len(ev.downloads) = 1
  /\ ev.downloads[1].text =
       "[2024-01-02 03:04:32] Alice: hi\n[2024-01-02 03:04:32] [TEAM] Bob: hey\n[2024-01-02 03:04:32] : "

-----------------------------------------------------------------------------
(* Start-up *)

\* each run of init adds one log container and one menu page
InitRuns == Len(containers)

\* init has run at most once, and exactly when start-up is over
InitAtMostOnce ==
  /\ InitRuns <= 1
  /\ Len(pages) = InitRuns
  /\ (startup = "done") <=> (InitRuns = 1)

\* before init there is no wrapper and no captured emission
NothingBeforeInit ==
  startup # "done" =>
     /\ hookDepth = 0
     /\ logContainer = 0
     /\ Log = <<>>
     /\ captured = <<>>

\* init runs at load when the framework is there, with no interval armed;
\* the interval is armed only when it is not; a tick runs init as soon as it
\* finds the framework and cancels the interval in the same step
StartupSteps ==
  /\ ev.op = "init" =>
        /\ ev.pre.startup \in {"load", "polling"}
        /\ GameMenuExtension
        /\ startup = "done"
        /\ polls = 0
  /\ ev.op = "setInterval" =>
        /\ ev.pre.startup = "load"
        /\ startup = "polling"
        /\ ~GameMenuExtension
  /\ ev.op = "checkInterval" =>
        /\ ev.pre.startup = "polling"
        /\ startup = "polling"
        /\ ~GameMenuExtension
  /\ startup = "done" => (~ENABLED Load /\ ~ENABLED checkInterval)

\* C20: start-up runs init exactly once whenever the framework becomes ready:
\* at load with no interval when the framework is present; otherwise at the
\* first tick that finds it, the interval being cancelled at that tick so that
\* no later tick runs init again; once the framework is present init is
\* eventually run; and until init has run no wrapper is installed and no
\* emission is captured
C20_InitExactlyOnce ==
  /\ [](InitAtMostOnce /\ NothingBeforeInit /\ StartupSteps)
  /\ GameMenuExtension ~> (startup = "done" /\ InitRuns = 1)

\* init ran at a tick of the interval and wrapped the host's chat function
C20_Witness ==
  /\ ev.op = "init"
  /\ ev.pre.startup = "polling"
  /\ UI = "ok"
  /\ hookDepth = 1
  /\ InitRuns = 1

====
